---- MODULE Spec2Model ----
(***************************************************************************)
(* WellnessHub backend (src/main.py): the users table, the JWT bearer      *)
(* tokens issued by /register and /login, the get_current_user dependency  *)
(* guarding /api/emotional-chat, and the four preference-update routes.    *)
(*                                                                         *)
(* Time is counted in ticks, TicksPerSecond of them to a second, so that   *)
(* the sub-second part of datetime.utcnow() is visible next to the whole   *)
(* seconds a JWT "exp" claim carries.                                      *)
(***************************************************************************)
EXTENDS Integers, Sequences, FiniteSets, TLC

VARIABLES
    users,    \* rows of the "users" table (a set of records)
    now,      \* the wall clock datetime.utcnow(), in ticks
    issued,   \* every token handed out by /register and /login, with its issuance
    reg,      \* per worker: the /register request it is in the middle of
    resp,     \* the last request handled and the response it got
    nreq      \* number of requests accepted so far

vars == <<users, now, issued, reg, resp, nreq>>

---------------------------------------------------------------------------
\* Bounds of the model

MaxRequests == 3

\* Resolution of the clock: the sub-second positions datetime.utcnow() can show
SubSecondTicks == {0, 1}
TicksPerSecond == Cardinality(SubSecondTicks)

\* Program constants
ACCESS_TOKEN_EXPIRE_MINUTES == 60
SECRET_KEY == "SECRET_KEY"
OtherKey == "other-secret"

\* Request inputs
Usernames == {"alice", "bob"}
Passwords == {"pw1", "pw2"}
Salts == {"s1"}
Themes == {"light", "dark"}
Languages == {"en", "hi"}
Workers == {"w1", "w2"}
Inputs == {"", "hello"}

None == "None"

---------------------------------------------------------------------------
\* Time

\* timedelta(minutes=m), in ticks
timedelta_minutes(m) == m * 60 * TicksPerSecond

\* timegm(dt.utctimetuple()): whole seconds since the epoch, sub-second part dropped
timegm(t) == t \div TicksPerSecond

\* The instants the clock is sampled at: the ticks of the first second, and the
\* ticks from one validity window later up to the start of the second after it
MaxTime == timedelta_minutes(ACCESS_TOKEN_EXPIRE_MINUTES) + TicksPerSecond
Times ==
    (0..(TicksPerSecond - 1))
        \cup (timedelta_minutes(ACCESS_TOKEN_EXPIRE_MINUTES)..MaxTime)

---------------------------------------------------------------------------
\* Password hashing (passlib CryptContext, bcrypt)

\* pwd_context.hash(password): a salted one-way digest
pwd_hash(password, salt) == <<"bcrypt", salt, password>>

\* Variant: the comparison result is ignored
pwd_verify_any(password, hashed) == hashed[1] = "bcrypt"

\* pwd_context.verify(password, hashed): re-hash with the stored salt and compare
pwd_verify(password, hashed) == hashed = pwd_hash(password, hashed[2])

---------------------------------------------------------------------------
\* The users table

\* User(username=..., password=...) with the column defaults
User(id, username, hashed_password) ==
    [id |-> id, username |-> username, password |-> hashed_password,
     theme |-> "light", notifications_enabled |-> TRUE,
     language |-> "en", incognito |-> FALSE]

\* Variant: the lookup filters on the wrong column and finds nothing
QueryByUsername_none(db, username) == {u \in db : ToString(u.id) = username}

\* db.query(User).filter(User.username == username).first(), as a set of 0 or 1 rows
QueryByUsername(db, username) == {u \in db : u.username = username}

\* Variant: the filter on id is dropped and .first() returns some row
QueryById_first(db, id) == IF db = {} THEN {} ELSE {CHOOSE u \in db : TRUE}

\* db.query(User).filter(User.id == id).first() / db.query(User).get(id)
QueryById(db, id) == {u \in db : u.id = id}

\* INTEGER PRIMARY KEY: the rowid SQLite assigns to an inserted row
NextId(db) ==
    IF db = {} THEN 1
    ELSE 1 + (CHOOSE m \in {u.id : u \in db} : \A u \in db : u.id <= m)

\* Variant: the username column is declared without unique=True
UniqueViolation_off(db, username) == FALSE

\* unique=True on users.username: the INSERT is refused when the name is present
UniqueViolation(db, username) == \E u \in db : u.username = username

\* Variant: the UPDATE has no WHERE clause
SetAttr_all(db, user_id, field, value) == {[u EXCEPT ![field] = value] : u \in db}

\* user.<field> = value; db.commit(): UPDATE users SET <field> = ? WHERE id = ?
SetAttr(db, user_id, field, value) ==
    {IF u.id = user_id THEN [u EXCEPT ![field] = value] ELSE u : u \in db}

MaxId == Cardinality(Usernames) + 1
UserIds == 1..MaxId

---------------------------------------------------------------------------
\* Tokens

\* str(user.id) and int(user_id)
str(n) == ToString(n)
int(s) == CHOOSE n \in 0..MaxId : ToString(n) = s

\* jwt.encode(to_encode, SECRET_KEY): a datetime "exp" becomes whole seconds
jwt_encode(claims, key) ==
    [wellformed |-> TRUE, sig |-> key,
     payload |-> [claims EXCEPT !.exp = timegm(claims.exp)]]

\* Variant: the expiry is set to the issuance time, the delta left out
create_access_token_noexp(sub, expires_delta, t) ==
    jwt_encode([sub |-> sub, exp |-> t], SECRET_KEY)

\* create_access_token(data={"sub": sub}, expires_delta) called at time t
create_access_token(sub, expires_delta, t) ==
    jwt_encode([sub |-> sub, exp |-> t + expires_delta], SECRET_KEY)

\* Variant: a token is refused from the second of its expiry on
jwt_expired_inclusive(exp, t) == exp <= timegm(t)

\* jwt.decode: the exp check of the library, "expired" iff exp < now in whole seconds
jwt_expired(exp, t) == exp < timegm(t)

\* Variant: the signature is not verified
jwt_decode_ok_nosig(token, key, t) ==
    /\ token.wellformed
    /\ ~jwt_expired(token.payload.exp, t)

\* jwt.decode(token, SECRET_KEY, algorithms=[ALGORITHM]): raises JWTError or
\* returns the payload
jwt_decode_ok(token, key, t) ==
    /\ token.wellformed
    /\ token.sig = key
    /\ ~jwt_expired(token.payload.exp, t)

\* payload.get("sub")
payload_get_sub(payload) ==
    IF "sub" \in DOMAIN payload THEN payload.sub ELSE None

\* get_current_user: the rows the bearer resolves to; {} stands for the
\* credentials_exception (401).  bearer is <<>> (no Authorization header, refused
\* by oauth2_scheme) or <<token>>.
get_current_user(bearer, db, t) ==
    IF bearer = <<>> THEN {}
    ELSE IF ~jwt_decode_ok(bearer[1], SECRET_KEY, t) THEN {}
    ELSE IF payload_get_sub(bearer[1].payload) = None THEN {}
    ELSE QueryById(db, int(payload_get_sub(bearer[1].payload)))

\* Tokens a client can present that the server never issued
FarFuture == timegm(MaxTime) + 1
ForeignTokens ==
    {[wellformed |-> FALSE, sig |-> SECRET_KEY, payload |-> [sub |-> "1", exp |-> FarFuture]],
     [wellformed |-> TRUE, sig |-> OtherKey, payload |-> [sub |-> "1", exp |-> FarFuture]],
     [wellformed |-> TRUE, sig |-> SECRET_KEY, payload |-> [exp |-> FarFuture]],
     [wellformed |-> TRUE, sig |-> SECRET_KEY, payload |-> [sub |-> str(MaxId), exp |-> FarFuture]]}

IssuedTokens == {i.token : i \in issued}
Bearers == {<<>>} \cup {<<t>> : t \in IssuedTokens \cup ForeignTokens}
PrefBearers == {<<>>} \cup {<<t>> : t \in IssuedTokens}

---------------------------------------------------------------------------
\* Responses

Idle == [pc |-> "idle", username |-> "-", password |-> "-"]

NoResponse ==
    [op |-> "none", status |-> 0, username |-> "-", password |-> "-",
     user_id |-> 0, bearer |-> <<>>, token |-> <<>>, value |-> "-", flag |-> FALSE,
     upstream |-> FALSE]

Init ==
    /\ users = {}
    /\ now \in 0..(TicksPerSecond - 1)
    /\ issued = {}
    /\ reg = [w \in Workers |-> Idle]
    /\ resp = NoResponse
    /\ nreq = 0

\* The clock moves on between requests
Advance ==
    \E t \in Times :
        /\ t > now
        /\ now' = t
        /\ resp' = NoResponse
        /\ UNCHANGED <<users, issued, reg, nreq>>

\* Counts an accepted request
Accept == nreq < MaxRequests /\ nreq' = nreq + 1

\* What /register and /login remember of a token they hand out
Issue(token, user) ==
    [token |-> token, iat |-> now, user_id |-> user.id, username |-> user.username]

\* POST /login
login_user(username, password) ==
    LET found == QueryByUsername(users, username) IN
    /\ Accept
    /\ IF found = {} \/ \E u \in found : ~pwd_verify(password, u.password)
       THEN /\ resp' = [NoResponse EXCEPT !.op = "login", !.status = 400,
                           !.username = username, !.password = password]
            /\ UNCHANGED issued
       ELSE LET user == CHOOSE u \in found : TRUE
                access_token == create_access_token(str(user.id),
                                    timedelta_minutes(ACCESS_TOKEN_EXPIRE_MINUTES), now)
            IN /\ issued' = issued \cup {Issue(access_token, user)}
               /\ resp' = [NoResponse EXCEPT !.op = "login", !.status = 200,
                              !.username = username, !.password = password,
                              !.user_id = user.id, !.token = <<access_token>>]
    /\ UNCHANGED <<users, now, reg>>

\* POST /register, up to the existence check (the SELECT)
register_check(w, username, password) ==
    /\ reg[w].pc = "idle"
    /\ Accept
    /\ IF QueryByUsername(users, username) # {}
       THEN /\ resp' = [NoResponse EXCEPT !.op = "register", !.status = 400,
                           !.username = username, !.password = password]
            /\ UNCHANGED reg
       ELSE /\ reg' = [reg EXCEPT ![w] = [pc |-> "checked", username |-> username,
                                          password |-> password]]
            /\ resp' = NoResponse
    /\ UNCHANGED <<users, now, issued>>

\* POST /register, from the hash to the response (the INSERT and its commit)
register_commit(w) ==
    LET username == reg[w].username
        password == reg[w].password
    IN
    /\ reg[w].pc = "checked"
    /\ reg' = [reg EXCEPT ![w] = Idle]
    /\ IF UniqueViolation(users, username)
       THEN \* IntegrityError out of db.commit(), not caught: 500
            /\ resp' = [NoResponse EXCEPT !.op = "register", !.status = 500,
                           !.username = username, !.password = password]
            /\ UNCHANGED <<users, issued>>
       ELSE \E salt \in Salts :
            LET new_user == User(NextId(users), username, pwd_hash(password, salt))
                access_token == create_access_token(str(new_user.id),
                                    timedelta_minutes(ACCESS_TOKEN_EXPIRE_MINUTES), now)
            IN /\ users' = users \cup {new_user}
               /\ issued' = issued \cup {Issue(access_token, new_user)}
               /\ resp' = [NoResponse EXCEPT !.op = "register", !.status = 200,
                              !.username = username, !.password = password,
                              !.user_id = new_user.id, !.token = <<access_token>>]
    /\ UNCHANGED <<now, nreq>>

\* POST /api/emotional-chat
chat_with_ai(bearer, input, groq_ok) ==
    LET current == get_current_user(bearer, users, now) IN
    /\ Accept
    /\ IF current = {}
       THEN resp' = [NoResponse EXCEPT !.op = "chat", !.status = 401, !.bearer = bearer,
                        !.value = input]
       ELSE LET user == CHOOSE u \in current : TRUE IN
            IF input = ""
            THEN resp' = [NoResponse EXCEPT !.op = "chat", !.status = 400,
                             !.bearer = bearer, !.value = input, !.user_id = user.id,
                             !.username = user.username]
            ELSE resp' = [NoResponse EXCEPT !.op = "chat",
                             !.status = IF groq_ok THEN 200 ELSE 500,
                             !.bearer = bearer, !.value = input, !.user_id = user.id,
                             !.username = user.username, !.upstream = TRUE]
    /\ UNCHANGED <<users, now, issued, reg>>

\* GET /logout
logout ==
    /\ Accept
    /\ resp' = [NoResponse EXCEPT !.op = "logout", !.status = 303]
    /\ UNCHANGED <<users, now, issued, reg>>

\* The body shared by the four preference routes: look the row up by id, set the
\* one attribute, commit and refresh, or answer 404
SetPreference(op, field, bearer, user_id, value, echo) ==
    LET found == QueryById(users, user_id) IN
    /\ Accept
    /\ IF found # {}
       THEN LET user == CHOOSE u \in found : TRUE IN
            /\ users' = SetAttr(users, user.id, field, value)
            /\ resp' = [NoResponse EXCEPT !.op = op, !.status = 200, !.bearer = bearer,
                           !.user_id = user_id, !.value = echo.value,
                           !.flag = echo.flag]
       ELSE /\ resp' = [NoResponse EXCEPT !.op = op, !.status = 404, !.bearer = bearer,
                           !.user_id = user_id]
            /\ UNCHANGED users
    /\ UNCHANGED <<now, issued, reg>>

\* The refreshed value a preference route echoes in its JSON body
EchoString(v) == [value |-> v, flag |-> FALSE]
EchoBool(v) == [value |-> "-", flag |-> v]

\* POST /personalize
personalize(bearer, user_id, theme) ==
    SetPreference("personalize", "theme", bearer, user_id, theme, EchoString(theme))

\* POST /notifications
notifications(bearer, user_id, enabled) ==
    SetPreference("notifications", "notifications_enabled", bearer, user_id, enabled,
                  EchoBool(enabled))

\* POST /language
change_language(bearer, user_id, language) ==
    SetPreference("language", "language", bearer, user_id, language, EchoString(language))

\* POST /incognito
toggle_incognito(bearer, user_id, enabled) ==
    SetPreference("incognito", "incognito", bearer, user_id, enabled, EchoBool(enabled))

Next ==
    \/ Advance
    \/ \E b \in PrefBearers, id \in UserIds, v \in Themes : personalize(b, id, v)
    \/ \E b \in PrefBearers, id \in UserIds, v \in BOOLEAN : notifications(b, id, v)
    \/ \E b \in PrefBearers, id \in UserIds, v \in Languages : change_language(b, id, v)
    \/ \E b \in PrefBearers, id \in UserIds, v \in BOOLEAN : toggle_incognito(b, id, v)
    \/ \E u \in Usernames, p \in Passwords : login_user(u, p)
    \/ \E w \in Workers, u \in Usernames, p \in Passwords : register_check(w, u, p)
    \/ \E w \in Workers : register_commit(w)
    \/ \E b \in Bearers, i \in Inputs, ok \in BOOLEAN : chat_with_ai(b, i, ok)
    \/ logout

Spec == Init /\ [][Next]_vars

---------------------------------------------------------------------------
\* Properties

\* access_token_expires = timedelta(minutes=ACCESS_TOKEN_EXPIRE_MINUTES)
access_token_expires == timedelta_minutes(ACCESS_TOKEN_EXPIRE_MINUTES)

PrefOps == {"personalize", "notifications", "language", "incognito"}

\* C1: a POST /register that arrives when its username already belongs to a user
\* record is answered 400 (DuplicateUsername), inserts no row, issues no token and
\* leaves every existing row as it was.
C1_DuplicateRegisterRejected ==
    [][\A w \in Workers, u \in Usernames, p \in Passwords :
          ((\E r \in users : r.username = u) /\ register_check(w, u, p))
              => /\ resp'.op = "register"
                 /\ resp'.status = 400
                 /\ resp'.token = <<>>
                 /\ issued' = issued
                 /\ users' = users
                 /\ reg' = reg]_vars

C1_Witness ==
    /\ resp.op = "register"
    /\ resp.status = 400
    /\ \E r \in users :
          /\ r.username = resp.username
          /\ \A s \in Salts : r.password # pwd_hash(resp.password, s)

\* C2: a token issued to user u at time T resolves through get_current_user to u's
\* record (same id, same username) at every time up to T + 60 minutes, in every
\* reachable state: no logout, registration, login or preference update revokes or
\* rebinds it; and a chat request carrying it in that window is served as u.
C2_TokenResolvesToOwner ==
    \A i \in issued :
        (i.iat <= now /\ now <= i.iat + access_token_expires)
            => LET current == get_current_user(<<i.token>>, users, now) IN
               /\ current # {}
               /\ \A r \in current : r.id = i.user_id /\ r.username = i.username
               /\ (resp.op = "chat" /\ resp.bearer = <<i.token>>)
                      => (resp.status # 401 /\ resp.user_id = i.user_id
                          /\ resp.username = i.username)

C2_Witness ==
    /\ resp.op = "chat"
    /\ resp.status = 200
    /\ Cardinality(users) = 2
    /\ \E i \in issued :
          /\ resp.bearer = <<i.token>>
          /\ i.user_id = 1
          /\ now = i.iat + access_token_expires

\* C3 as stated: the expiry is the issuance time plus exactly 60 minutes, that is,
\* validation of an issued token succeeds at every t with T <= t <= T + 60 min and
\* fails at every t > T + 60 min.
C3_ExpiryExactlySixtyMinutes ==
    \A i \in issued :
        i.iat <= now
            => (jwt_decode_ok(i.token, SECRET_KEY, now)
                    <=> now <= i.iat + access_token_expires)

\* C3 as amended: the expiry is the whole second of the issuance time plus 3600
\* seconds; validation succeeds at every t with T <= t <= T + 60 min, goes on
\* succeeding until the clock's whole second passes the expiry, and fails as expired
\* at every t from T + 60 min + 1 s on.
C3_ExpiryInWholeSeconds ==
    \A i \in issued :
        /\ i.token.payload.exp = timegm(i.iat) + ACCESS_TOKEN_EXPIRE_MINUTES * 60
        /\ (i.iat <= now /\ now <= i.iat + access_token_expires)
              => jwt_decode_ok(i.token, SECRET_KEY, now)
        /\ (i.iat <= now /\ timegm(now) <= timegm(i.iat + access_token_expires))
              => jwt_decode_ok(i.token, SECRET_KEY, now)
        /\ now >= i.iat + access_token_expires + TicksPerSecond
              => /\ ~jwt_decode_ok(i.token, SECRET_KEY, now)
                 /\ get_current_user(<<i.token>>, users, now) = {}

C3_Witness ==
    /\ resp.op = "chat"
    /\ resp.status = 401
    /\ \E i \in issued :
          /\ resp.bearer = <<i.token>>
          /\ now = i.iat + access_token_expires + TicksPerSecond

C5_PreferencesRequireBearer ==
    [][(resp'.op \in PrefOps /\ get_current_user(resp'.bearer, users, now) = {})
          => users' = users]_vars

\* C6: POST /login answers 200 with a token whose subject is the named user's id
\* iff a record with that username exists and the password is the one its stored
\* hash was made from; otherwise it answers 400, issues no token, changes nothing.
C6_LoginIffCredentialsMatch ==
    [][resp'.op = "login"
          => LET match == {r \in users :
                              /\ r.username = resp'.username
                              /\ \E s \in Salts : r.password = pwd_hash(resp'.password, s)}
             IN IF match # {}
                THEN /\ resp'.status = 200
                     /\ resp'.token # <<>>
                     /\ \A r \in match :
                            /\ resp'.token[1].payload.sub = str(r.id)
                            /\ resp'.user_id = r.id
                     /\ users' = users
                ELSE /\ resp'.status = 400
                     /\ resp'.token = <<>>
                     /\ users' = users
                     /\ issued' = issued
                     /\ reg' = reg]_vars

C6_Witness ==
    /\ resp.op = "login"
    /\ resp.status = 400
    /\ \E r \in users : r.username = resp.username

\* C7: a preference update naming a user_id with no user record is answered 404 and
\* the users table is the same before and after.
C7_UnknownIdNotFound ==
    [][(resp'.op \in PrefOps /\ ~\E r \in users : r.id = resp'.user_id)
          => (resp'.status = 404 /\ users' = users)]_vars

C7_Witness ==
    /\ resp.op \in PrefOps
    /\ resp.status = 404
    /\ users # {}

\* C8: of two concurrent POST /register for the same new username exactly one
\* inserts a row, no state holds two rows with that username, and the request that
\* inserts nothing is answered 400 (DuplicateUsername).
C8_ConcurrentRegisterLoserGets400 ==
    [][/\ \A r1, r2 \in users' : r1.username = r2.username => r1 = r2
       /\ \A w \in Workers :
             (register_commit(w) /\ users' = users) => resp'.status = 400]_vars

\* C9: a successful preference update sets exactly the field its route names, on the
\* row with the given id, to the supplied value and echoes it; every other field of
\* that row and every other row stay as they were.
C9_UpdateTouchesOneField ==
    [][(resp'.op \in PrefOps /\ resp'.status = 200)
          => LET target == resp'.user_id
                 Updated(r) ==
                     CASE resp'.op = "personalize" -> [r EXCEPT !.theme = resp'.value]
                       [] resp'.op = "notifications" ->
                              [r EXCEPT !.notifications_enabled = resp'.flag]
                       [] resp'.op = "language" -> [r EXCEPT !.language = resp'.value]
                       [] resp'.op = "incognito" -> [r EXCEPT !.incognito = resp'.flag]
             IN /\ \E r \in users : r.id = target
                /\ users' = {IF r.id = target THEN Updated(r) ELSE r : r \in users}]_vars

C9_Witness ==
    /\ resp.op = "incognito"
    /\ resp.status = 200
    /\ resp.flag
    /\ Cardinality(users) = 2
    /\ \E r \in users : r.id = resp.user_id /\ r.incognito
    /\ \E r \in users : r.id # resp.user_id /\ ~r.incognito

\* C10: the users table only grows: every row stays, with its id, username and
\* password hash, and ids and usernames are pairwise distinct across rows.
C10_RecordsPersistAndStayDistinct ==
    [][/\ \A r \in users :
             \E q \in users' :
                 q.id = r.id /\ q.username = r.username /\ q.password = r.password
       /\ \A r1, r2 \in users' :
             (r1.id = r2.id \/ r1.username = r2.username) => r1 = r2]_vars

C10_Witness ==
    /\ Cardinality(users) = 2
    /\ resp.op = "register"
    /\ resp.status = 500

====
